---------------------------- MODULE Spec2Model ----------------------------
(***************************************************************************)
(* Model of extract_paragraphs_from_page_htmls.py.                         *)
(*                                                                         *)
(* Text is a sequence of characters; a character is a one-element token.   *)
(* ASCII characters stand for themselves, other code points are written    *)
(* "U+XXXX":                                                              *)
(*   U+3000 ideographic space   (whitespace, NFKC -> " ", not printable)   *)
(*   U+200B zero width space    (not whitespace, not printable)            *)
(*   U+7236 chichi (father), U+6BCD haha (mother), U+306E no (genitive),   *)
(*   U+4EE3 dai, U+5185 nai ("5" dai nai = within 5 generations),          *)
(*   U+7CFB kei (haha kei = maternal line),                                *)
(*   U+8840 U+7D71 U+8868 kettohyo (pedigree table section title),         *)
(*   U+811A U+6CE8 kyakuchu (footnotes section title), ...                 *)
(*                                                                         *)
(* Four specifications share the module:                                   *)
(*   Spec       main's read / filter / emit loop                           *)
(*   SpecNorm   normalize_text applied once and twice                      *)
(*   SpecBlood  normalize_blood_table_text over a table's rows             *)
(*   SpecWalk   extract_paragraphs_from_html over a parsed tree            *)
(***************************************************************************)
EXTENDS Integers, Sequences, FiniteSets, TLC

VARIABLES
    \* ---- main ----
    min_paragraph_length, max_paragraph_length, sections_to_ignore,
    pc, lineNo, input_item, paragraph_index, output,
    yielded,      \* history: the triples the generator yielded for this line
    docStart,     \* history: Len(output) when this line was read
    yieldCount,   \* history: triples yielded since main started
    \* ---- normalize_text ----
    nPc, nText, nOnce, nTwice,
    \* ---- normalize_blood_table_text ----
    bPc, csv_data, bResult,
    bTable,       \* history: the raw cell texts of the rows visited so far
    \* ---- extract_paragraphs_from_html ----
    tags_to_extract, tags_to_remove, inner_tags_to_remove,
    soup,         \* the parsed tree: a sequence of nodes in document order
    section, section_title,
    found,        \* what is left of the list section.find_all(tags_to_extract)
    wPc,
    wYielded,     \* history: the triples yielded, with the element of each
    html          \* history: the tree as parsed

mainVars == <<min_paragraph_length, max_paragraph_length, sections_to_ignore,
              pc, lineNo, input_item, paragraph_index, output, yielded, docStart,
              yieldCount>>
normVars == <<nPc, nText, nOnce, nTwice>>
bloodVars == <<bPc, csv_data, bResult, bTable>>
walkVars == <<tags_to_extract, tags_to_remove, inner_tags_to_remove, soup,
              section, section_title, found, wPc, wYielded, html>>
vars == <<mainVars, normVars, bloodVars, walkVars>>

(***************************************************************************)
(* Bounds                                                                  *)
(***************************************************************************)
MaxLen == 5        \* longest text handed to normalize_text
NDocs == 2         \* lines of the input file
MaxYields == 3     \* triples yielded over the whole run
MaxRows == 3       \* tr elements of a pedigree table
MaxSections == 3   \* section elements of a document

(***************************************************************************)
(* Characters and the str methods the program uses                         *)
(***************************************************************************)
Least(S) == CHOOSE x \in S : \A y \in S : x <= y

\* str.isspace for one character
IsSpace(c) == c \in {" ", "\t", "\n", "U+3000"}

\* str.isprintable for one character: the ASCII space is the only printable
\* separator; controls, format characters and other separators are not
IsPrintable(c) == c \notin {"\t", "\n", "U+3000", "U+200B"}

\* unicodedata.normalize("NFKC", c) for one character
NFKCChar(c) ==
    IF c = "U+3000" THEN <<" ">>
    ELSE IF c = "U+FF41" THEN <<"a">>
    ELSE <<c>>

RECURSIVE NFKC(_)
NFKC(s) == IF s = <<>> THEN <<>> ELSE NFKCChar(Head(s)) \o NFKC(Tail(s))

RECURSIVE lstrip(_)
lstrip(s) == IF s # <<>> /\ IsSpace(Head(s)) THEN lstrip(Tail(s)) ELSE s

RECURSIVE rstrip(_)
rstrip(s) ==
    IF s # <<>> /\ IsSpace(s[Len(s)]) THEN rstrip(SubSeq(s, 1, Len(s) - 1)) ELSE s

strip(s) == rstrip(lstrip(s))

\* the longest whitespace-free prefix
RECURSIVE FirstWord(_)
FirstWord(s) ==
    IF s = <<>> \/ IsSpace(Head(s)) THEN <<>>
    ELSE <<Head(s)>> \o FirstWord(Tail(s))

\* str.split() with no argument: the maximal whitespace-free runs
RECURSIVE split(_)
split(s) ==
    LET t == lstrip(s) IN
    IF t = <<>> THEN <<>>
    ELSE LET w == FirstWord(t) IN <<w>> \o split(SubSeq(t, Len(w) + 1, Len(t)))

\* sep.join(parts)
RECURSIVE join(_, _)
join(sep, parts) ==
    IF parts = <<>> THEN <<>>
    ELSE IF Len(parts) = 1 THEN parts[1]
    ELSE parts[1] \o sep \o join(sep, Tail(parts))

\* "".join(char for char in text if char.isprintable())
KeepPrintable(s) == SelectSeq(s, IsPrintable)

normalize_text(text) ==
    LET t1 == NFKC(text)
        t2 == join(<<" ">>, split(t1))
        t3 == KeepPrintable(t2)
    IN  strip(t3)

(***************************************************************************)
(* SpecNorm: normalize_text on every text of at most MaxLen characters     *)
(***************************************************************************)
NormAlphabet == {"a", " ", "\t", "U+3000", "U+200B"}

Texts(n) == UNION {[1..k -> NormAlphabet] : k \in 0..n}

NormIdle == nPc = "idle" /\ nText = <<>> /\ nOnce = <<>> /\ nTwice = <<>>

NormInit ==
    /\ nPc = "raw"
    /\ nText \in Texts(MaxLen)
    /\ nOnce = <<>>
    /\ nTwice = <<>>

Normalize ==
    /\ nPc = "raw"
    /\ nOnce' = normalize_text(nText)
    /\ nPc' = "once"
    /\ UNCHANGED <<nText, nTwice>>

Renormalize ==
    /\ nPc = "once"
    /\ nTwice' = normalize_text(nOnce)
    /\ nPc' = "twice"
    /\ UNCHANGED <<nText, nOnce>>

(***************************************************************************)
(* Spec: main                                                              *)
(***************************************************************************)
LEAD == <<"_", "_", "L", "E", "A", "D", "_", "_">>
Kyakuchu == <<"U+811A", "U+6CE8">>
Shutten == <<"U+51FA", "U+5178">>
SankoBunken == <<"U+53C2", "U+8003", "U+6587", "U+732E">>
KanrenKomoku == <<"U+95A2", "U+9023", "U+9805", "U+76EE">>
GaibuLink == <<"U+5916", "U+90E8", "U+30EA", "U+30F3", "U+30AF">>

DEFAULT_SECTIONS_TO_IGNORE ==
    {Kyakuchu, Shutten, SankoBunken, KanrenKomoku, GaibuLink}

\* what --sections_to_ignore may be: absent (the default) or given
IgnoreChoices == {DEFAULT_SECTIONS_TO_IGNORE, {LEAD}}

\* the triples the generator may yield
YieldSections == {LEAD, Kyakuchu}
YieldTexts ==
    {<<>>, <<"a">>, <<"a", "b">>, <<"a", "b", "c">>, <<"a", "b", "c", "d">>}
YieldTags == {"p"}
MinLengths == {1, 2}
MaxLengths == {2, 3}

\* line k of the input file, json.loads'ed
InputLine(k) == [pageid |-> k, revid |-> 2 * k, title |-> <<"T", ToString(k)>>]

\* "{}-{}-{}".format(page_id, rev_id, paragraph_index)
FormatId(page_id, rev_id, index) ==
    ToString(page_id) \o "-" \o ToString(rev_id) \o "-" \o ToString(index)

InIgnoredSectionDefaultOnly(item_section) ==
    item_section \in DEFAULT_SECTIONS_TO_IGNORE

\* line 152
InIgnoredSection(item_section) == item_section \in sections_to_ignore

LengthKeptExclusiveMin(paragraph_text) ==
    /\ Len(paragraph_text) > min_paragraph_length
    /\ ~(Len(paragraph_text) > max_paragraph_length)

\* lines 154-157: neither "continue" is taken
LengthKept(paragraph_text) ==
    /\ ~(Len(paragraph_text) < min_paragraph_length)
    /\ ~(Len(paragraph_text) > max_paragraph_length)

\* lines 152-157
Kept(item_section, paragraph_text) ==
    /\ ~InIgnoredSection(item_section)
    /\ LengthKept(paragraph_text)

NextIndexCountingDropped(kept, index) == index + 1

\* line 170, which a "continue" skips
NextIndex(kept, index) == IF kept THEN index + 1 ELSE index

\* lines 159-168
OutputItem(item, item_section, paragraph_text, tag_name, index) ==
    [id |-> FormatId(item.pageid, item.revid, index),
     pageid |-> item.pageid,
     revid |-> item.revid,
     paragraph_index |-> index,
     title |-> item.title,
     section |-> item_section,
     text |-> paragraph_text,
     html_tag |-> tag_name]

MainIdle ==
    /\ min_paragraph_length = 0
    /\ max_paragraph_length = 0
    /\ sections_to_ignore = {}
    /\ pc = "idle"
    /\ lineNo = 0
    /\ input_item = InputLine(0)
    /\ paragraph_index = 0
    /\ output = <<>>
    /\ yielded = <<>>
    /\ docStart = 0
    /\ yieldCount = 0

MainInit ==
    /\ min_paragraph_length \in MinLengths
    /\ max_paragraph_length \in MaxLengths
    /\ sections_to_ignore \in IgnoreChoices
    /\ pc = "read"
    /\ lineNo = 0
    /\ input_item = InputLine(0)
    /\ paragraph_index = 0
    /\ output = <<>>
    /\ yielded = <<>>
    /\ docStart = 0
    /\ yieldCount = 0

args == <<min_paragraph_length, max_paragraph_length, sections_to_ignore>>

\* lines 141-148: the next line of the input file
ReadLine ==
    /\ pc = "read"
    /\ lineNo < NDocs
    /\ lineNo' = lineNo + 1
    /\ input_item' = InputLine(lineNo + 1)
    /\ paragraph_index' = 0
    /\ yielded' = <<>>
    /\ docStart' = Len(output)
    /\ pc' = "iter"
    /\ UNCHANGED <<args, output, yieldCount>>

\* line 141: the input file is exhausted; the with block closes both files
EndOfFile ==
    /\ pc = "read"
    /\ pc' = "done"
    /\ UNCHANGED <<args, lineNo, input_item, paragraph_index, output, yielded,
                   docStart, yieldCount>>

\* lines 149-170: one turn of the loop over the generator
Yield(item_section, paragraph_text, tag_name) ==
    /\ pc = "iter"
    /\ yieldCount < MaxYields
    /\ yieldCount' = yieldCount + 1
    /\ LET kept == Kept(item_section, paragraph_text)
           out == IF kept
                  THEN Append(output, OutputItem(input_item, item_section,
                                                 paragraph_text, tag_name,
                                                 paragraph_index))
                  ELSE output
       IN  /\ output' = out
           /\ paragraph_index' = NextIndex(kept, paragraph_index)
           /\ yielded' = Append(yielded,
                  [section_title |-> item_section,
                   paragraph_text |-> paragraph_text,
                   tag_name |-> tag_name,
                   before |-> Len(output), after |-> Len(out),
                   index_before |-> paragraph_index,
                   index_after |-> NextIndex(kept, paragraph_index)])
    /\ UNCHANGED <<args, pc, lineNo, input_item, docStart>>

\* line 149: the generator is exhausted
StopIteration ==
    /\ pc = "iter"
    /\ pc' = "read"
    /\ UNCHANGED <<args, lineNo, input_item, paragraph_index, output, yielded,
                   docStart, yieldCount>>

RaiseLosingOutput ==
    /\ pc = "iter"
    /\ pc' = "aborted"
    /\ output' = <<>>
    /\ UNCHANGED <<args, lineNo, input_item, paragraph_index, yielded, docStart,
                   yieldCount>>

\* line 149: the generator raises (line 67 on a row with no cell); the
\* exception leaves main through the with block of line 140, which closes
\* the output file with every line printed so far
Raise ==
    /\ pc = "iter"
    /\ pc' = "aborted"
    /\ UNCHANGED <<args, lineNo, input_item, paragraph_index, output, yielded,
                   docStart, yieldCount>>

(***************************************************************************)
(* SpecBlood: normalize_blood_table_text                                   *)
(***************************************************************************)
Chichi == "U+7236"
Haha == "U+6BCD"
No == "U+306E"
Dai == "U+4EE3"
Nai == "U+5185"
Kei == "U+7CFB"

\* line 67
RelationKeywords ==
    {<<Chichi, " ">>, <<Haha, " ">>, <<Chichi, No>>, <<Haha, No>>}
\* line 70
Within5Keywords == {<<"5", Dai, Nai>>}
\* line 74
MaternalKeywords == {<<Haha, Kei>>}

\* str.startswith
startswith(s, keyword) ==
    Len(s) >= Len(keyword) /\ SubSeq(s, 1, Len(keyword)) = keyword

\* any(row[0].startswith(keyword) for keyword in keywords)
any_startswith(s, keywords) == \E keyword \in keywords : startswith(s, keyword)

NotStar(c) == c # "*"
NotAsciiSpace(c) == c # " "

\* .replace('*', '')
remove_stars(s) == SelectSeq(s, NotStar)

\* .replace(' ', '')
remove_spaces(s) == SelectSeq(s, NotAsciiSpace)

\* re.sub(r'\s+', repl, s): every whitespace run becomes repl
RECURSIVE sub_every_run(_, _)
sub_every_run(repl, s) ==
    IF s = <<>> THEN <<>>
    ELSE IF IsSpace(Head(s)) THEN repl \o sub_every_run(repl, lstrip(s))
    ELSE <<Head(s)>> \o sub_every_run(repl, Tail(s))

\* re.sub(r'\s+', repl, s, count=1): the first whitespace run becomes repl
RECURSIVE sub_first_run(_, _)
sub_first_run(repl, s) ==
    IF s = <<>> THEN <<>>
    ELSE IF IsSpace(Head(s)) THEN repl \o lstrip(s)
    ELSE <<Head(s)>> \o sub_first_run(repl, Tail(s))

\* line 66: the cell texts of one tr, from the texts get_text(separator=' ')
\* returns for its td and th elements
RECURSIVE RowCells(_)
RowCells(raw_row) ==
    IF raw_row = <<>> THEN <<>>
    ELSE <<strip(remove_stars(Head(raw_row)))>> \o RowCells(Tail(raw_row))

\* lines 67, 70, 74: the branch taken; row[0] is evaluated first
RowKind(row) ==
    IF any_startswith(row[1], RelationKeywords) THEN "relation"
    ELSE IF any_startswith(row[1], Within5Keywords) THEN "within5"
    ELSE IF any_startswith(row[1], MaternalKeywords) THEN "maternal"
    ELSE "other"

\* IndexError: row[0] of a row with no cell (line 67), row[1] of a one-cell
\* row (line 72)
RowRaises(row) ==
    \/ Len(row) = 0
    \/ Len(row) = 1 /\ RowKind(row) = "within5"

\* lines 68-69
RelationLineEveryRun(row) ==
    join(<<" ", "-", " ">>, <<sub_every_run(<<":", " ">>, row[1])>> \o Tail(row))

RelationLine(row) ==
    join(<<" ", "-", " ">>, <<sub_first_run(<<":", " ">>, row[1])>> \o Tail(row))

\* lines 71-73
Within5Line(row) ==
    join(<<":", " ">>, <<remove_spaces(row[1]), sub_every_run(<<" ">>, row[2])>>
                       \o SubSeq(row, 3, Len(row)))

\* line 75
MaternalLine(row) == join(<<":", " ">>, row)

\* lines 67-75: csv_data after the row
AppendRow(data, row) ==
    IF RowKind(row) = "relation" THEN Append(data, RelationLine(row))
    ELSE IF RowKind(row) = "within5" THEN Append(data, Within5Line(row))
    ELSE IF RowKind(row) = "maternal" THEN Append(data, MaternalLine(row))
    ELSE data

\* line 76
BloodText(data) == NFKC(join(<<"\n">>, data))

\* the raw cell texts the rows are drawn from
FirstCells ==
    { <<Chichi, " ", "x">>,
      <<Haha, " ", " ", "x", " ", "y">>,
      <<Chichi, No, Chichi>>,
      <<Haha, No, Haha, "\t", "x", " ", "y">>,
      <<"5", Dai, Nai, " ", "x", " ", "y">>,
      <<"5", Dai, Nai, "U+3000", "x">>,
      <<Haha, Kei>>,
      <<Haha, Kei, " ", "U+FF41">>,
      <<"*", Chichi, " ", "x", "*", " ">>,
      <<Chichi, "\t", "x">>,
      <<"x", " ", Chichi, " ">>,
      <<>> }
SecondCells == { <<"x">>, <<"a", " ", "b", " ", "\n", "c">> }
ThirdCells == { <<"*", "z">> }

RawRows ==
    {<<>>}
    \cup {<<f>> : f \in {<<Chichi, " ", "x">>, <<"5", Dai, Nai, " ", "x", " ", "y">>,
                         <<Haha, Kei>>, <<"x", " ", Chichi, " ">>, <<>>}}
    \cup {<<f, <<"x">>>> : f \in FirstCells}
    \cup {<<f, g>> : f \in {<<Chichi, " ", "x">>, <<"5", Dai, Nai, " ", "x", " ", "y">>,
                            <<Haha, Kei>>},
                     g \in SecondCells \ {<<"x">>}}
    \cup {<<f, <<"x">>, h>> : f \in {<<Chichi, " ", "x">>, <<"5", Dai, Nai>>,
                                    <<Haha, Kei>>},
                             h \in ThirdCells}

BloodIdle == bPc = "idle" /\ csv_data = <<>> /\ bResult = <<>> /\ bTable = <<>>

\* line 64
BloodInit == bPc = "loop" /\ csv_data = <<>> /\ bResult = <<>> /\ bTable = <<>>

\* lines 65-75: one tr, which completes
BloodRow(raw_row) ==
    /\ bPc = "loop"
    /\ Len(bTable) < MaxRows
    /\ ~RowRaises(RowCells(raw_row))
    /\ csv_data' = AppendRow(csv_data, RowCells(raw_row))
    /\ bTable' = Append(bTable, raw_row)
    /\ UNCHANGED <<bPc, bResult>>

\* lines 65-72: one tr, on which row[0] or row[1] raises IndexError
BloodRaise(raw_row) ==
    /\ bPc = "loop"
    /\ Len(bTable) < MaxRows
    /\ RowRaises(RowCells(raw_row))
    /\ bPc' = "raised"
    /\ bTable' = Append(bTable, raw_row)
    /\ UNCHANGED <<csv_data, bResult>>

\* line 76: no tr is left
BloodReturn ==
    /\ bPc = "loop"
    /\ bResult' = BloodText(csv_data)
    /\ bPc' = "returned"
    /\ UNCHANGED <<csv_data, bTable>>

(***************************************************************************)
(* SpecWalk: extract_paragraphs_from_html                                  *)
(*                                                                         *)
(* The tree BeautifulSoup builds is a sequence of nodes; a node names its  *)
(* tag ("#text" for a string), its classes, its parent (0 is the document, *)
(* Detached an element taken out of the tree) and, for a string, its text. *)
(* The children of a node are in document order by position.               *)
(***************************************************************************)
Detached == -1

Node(tag, cls, parent, text) ==
    [tag |-> tag, cls |-> cls, parent |-> parent, text |-> text]
Element(tag, parent) == Node(tag, {}, parent, <<>>)
String(parent, text) == Node("#text", {}, parent, text)

\* the descendants of n in document order, from its children at lo or later
RECURSIVE DescendantsFrom(_, _, _)
DescendantsFrom(t, n, lo) ==
    LET kids == {i \in lo..Len(t) : t[i].parent = n} IN
    IF kids = {} THEN <<>>
    ELSE LET k == Least(kids) IN
         <<k>> \o DescendantsFrom(t, k, 1) \o DescendantsFrom(t, n, k + 1)

descendants(t, n) == DescendantsFrom(t, n, 1)

\* Tag.find_all(names): the descendants of n with one of the tag names
find_all(t, n, names) ==
    LET Named(i) == t[i].tag \in names IN SelectSeq(descendants(t, n), Named)

\* Tag.find_all(name, {"class": cls}): one of the element's classes is cls
find_all_class(t, n, name, cls) ==
    LET Matches(i) == t[i].tag = name /\ cls \in t[i].cls IN
    SelectSeq(descendants(t, n), Matches)

\* Tag.get_text(separator): the strings below n, joined
RECURSIVE TextsOf(_, _)
TextsOf(t, nodes) ==
    IF nodes = <<>> THEN <<>>
    ELSE (IF t[Head(nodes)].tag = "#text" THEN <<t[Head(nodes)].text>> ELSE <<>>)
         \o TextsOf(t, Tail(nodes))

get_text(t, n, separator) == join(separator, TextsOf(t, descendants(t, n)))

\* Tag.clear(): the children of n leave the tree, each with its own subtree
RECURSIVE ClearFrom(_, _, _)
ClearFrom(t, n, i) ==
    IF i > Len(t) THEN <<>>
    ELSE <<IF t[i].parent = n
           THEN Node(t[i].tag, t[i].cls, Detached, t[i].text)
           ELSE t[i]>> \o ClearFrom(t, n, i + 1)

clear(t, n) == ClearFrom(t, n, 1)

RECURSIVE clear_all(_, _)
clear_all(t, nodes) ==
    IF nodes = <<>> THEN t ELSE clear_all(clear(t, Head(nodes)), Tail(nodes))

\* cell.string = text
set_string(t, n, text) == Append(clear(t, n), String(n, text))

\* line 81: soup.find(["section"]); 0 is None
first_section(t) ==
    LET all == find_all(t, 0, {"section"}) IN IF all = <<>> THEN 0 ELSE all[1]

\* line 111: section.find_next_sibling(["section"])
find_next_sibling(t, n) ==
    LET later == {i \in (n + 1)..Len(t) :
                     t[i].parent = t[n].parent /\ t[i].tag = "section"} IN
    IF later = {} THEN 0 ELSE Least(later)

\* section.h2, for the mutant: a child of the section only
SectionH2DirectChild(t, n) ==
    LET kids == {i \in 1..Len(t) : t[i].parent = n /\ t[i].tag = "h2"} IN
    IF kids = {} THEN 0 ELSE Least(kids)

\* lines 83-84: section.h2 is section.find("h2"), the first h2 below the
\* section at any depth; 0 is None
SectionH2(t, n) ==
    LET all == find_all(t, n, {"h2"}) IN IF all = <<>> THEN 0 ELSE all[1]

\* lines 83-84
TitleAt(t, n, title) ==
    IF SectionH2(t, n) # 0 THEN get_text(t, SectionH2(t, n), <<>>) ELSE title

\* lines 86-92: a spec is [tag, {"class": cls}] or, given on the command
\* line, a tag name alone (cls = "")
RemoveSpec(tag, cls) == [tag |-> tag, cls |-> cls]

RECURSIVE remove_blocks(_, _, _)
remove_blocks(t, n, specs) ==
    IF specs = <<>> THEN t
    ELSE LET tag == Head(specs)
             hits == IF tag.cls # ""
                     THEN find_all_class(t, n, tag.tag, tag.cls)
                     ELSE find_all(t, n, {tag.tag})
         IN  remove_blocks(clear_all(t, hits), n, Tail(specs))

\* lines 95-96
remove_inner(t, n, names) == clear_all(t, find_all(t, n, names))

\* lines 56-61: each cell becomes one string
RECURSIVE normalize_cells(_, _)
normalize_cells(t, cells) ==
    IF cells = <<>> THEN t
    ELSE normalize_cells(
             set_string(t, Head(cells),
                        join(<<" ">>, split(NFKC(get_text(t, Head(cells), <<" ">>))))),
             Tail(cells))

normalize_table_text(t, table_tag) ==
    normalize_cells(t, find_all(t, table_tag, {"th", "td"}))

\* line 104: text_maker.handle(str(tag)) of html2text: the strings of the
\* table in document order, each closing its column, and the blank line
\* html2text ends its output with
RECURSIVE Columns(_)
Columns(texts) ==
    IF texts = <<>> THEN <<>> ELSE Head(texts) \o <<"|">> \o Columns(Tail(texts))

text_maker_handle(t, table_tag) ==
    Columns(TextsOf(t, descendants(t, table_tag))) \o <<"\n", "\n">>

\* lines 65-66: the raw cell texts of the rows of a table
RECURSIVE CellTexts(_, _)
CellTexts(t, cells) ==
    IF cells = <<>> THEN <<>>
    ELSE <<get_text(t, Head(cells), <<" ">>)>> \o CellTexts(t, Tail(cells))

RECURSIVE RowTexts(_, _)
RowTexts(t, trs) ==
    IF trs = <<>> THEN <<>>
    ELSE <<CellTexts(t, find_all(t, Head(trs), {"td", "th"}))>> \o RowTexts(t, Tail(trs))

TableRows(t, table_tag) == RowTexts(t, find_all(t, table_tag, {"tr"}))

\* lines 65-75 over all the rows
RECURSIVE BloodRaises(_)
BloodRaises(raw_rows) ==
    /\ raw_rows # <<>>
    /\ \/ RowRaises(RowCells(Head(raw_rows)))
       \/ BloodRaises(Tail(raw_rows))

RECURSIVE BloodData(_, _)
BloodData(data, raw_rows) ==
    IF raw_rows = <<>> THEN data
    ELSE BloodData(AppendRow(data, RowCells(Head(raw_rows))), Tail(raw_rows))

\* lines 63-76
normalize_blood_table_text(t, table_tag) == BloodText(BloodData(<<>>, TableRows(t, table_tag)))

Kettohyo == <<"U+8840", "U+7D71", "U+8868">>

DEFAULT_TAGS_TO_REMOVE ==
    << RemoveSpec("div", "hatnote dablink noprint"),
       RemoveSpec("table", "box-U+99AC-U+9F62-U+65B0"),
       RemoveSpec("table", "box-U+99AC-U+9F62-U+65E7"),
       RemoveSpec("table", "box-U+73FE-U+5F79-U+7AF6-U+8D70-U+99AC"),
       RemoveSpec("table", "infobox"),
       RemoveSpec("table", "navbox"),
       RemoveSpec("div", "navbox") >>
DEFAULT_TAGS_TO_EXTRACT == {"p", "dd", "table", "blockquote"}
DEFAULT_INNER_TAGS_TO_REMOVE == {"sup"}

\* lines 115-128: the defaults, or --tags_to_extract p --tags_to_remove table
WalkConfigs ==
    { [extract |-> DEFAULT_TAGS_TO_EXTRACT, remove |-> DEFAULT_TAGS_TO_REMOVE],
      [extract |-> {"p"}, remove |-> <<RemoveSpec("table", "")>>] }

\* the sections documents are made of; parents are relative to the section
SectionShapes ==
    { \* <section><p>a</p></section>
      << Element("section", 0), Element("p", 1), String(2, <<"a">>) >>,
      \* <section><h2>H1</h2><p>b<sup>1</sup></p></section>
      << Element("section", 0), Element("h2", 1), String(2, <<"H", "1">>),
         Element("p", 1), String(4, <<"b">>), Element("sup", 4), String(6, <<"1">>) >>,
      \* <section><h2>H2</h2><dd> c  d </dd></section>
      << Element("section", 0), Element("h2", 1), String(2, <<"H", "2">>),
         Element("dd", 1), String(4, <<" ", "c", " ", " ", "d", " ">>) >>,
      \* <section><div><h2>H3</h2></div><p>e</p></section>
      << Element("section", 0), Element("div", 1), Element("h2", 2),
         String(3, <<"H", "3">>), Element("p", 1), String(5, <<"e">>) >>,
      \* <section><p>f</p><section><h2>H4</h2><p>g</p></section></section>
      << Element("section", 0), Element("p", 1), String(2, <<"f">>),
         Element("section", 1), Element("h2", 4), String(5, <<"H", "4">>),
         Element("p", 4), String(7, <<"g">>) >>,
      \* <section><table><tr><td><p>h</p></td><td>i</td></tr></table>
      \*   <blockquote><p>j</p></blockquote></section>
      << Element("section", 0), Element("table", 1), Element("tr", 2),
         Element("td", 3), Element("p", 4), String(5, <<"h">>),
         Element("td", 3), String(7, <<"i">>),
         Element("blockquote", 1), Element("p", 9), String(10, <<"j">>) >>,
      \* <section><table class="navbox"><tr><td>k</td></tr></table><p>l</p>
      \*   <div class="navbox"><p>m</p></div></section>
      << Element("section", 0), Node("table", {"navbox"}, 1, <<>>), Element("tr", 2),
         Element("td", 3), String(4, <<"k">>), Element("p", 1), String(6, <<"l">>),
         Node("div", {"navbox"}, 1, <<>>), Element("p", 8), String(9, <<"m">>) >>,
      \* <section><h2>kettohyo</h2><table><tr><th>chichi x</th><td>y</td></tr>
      \*   <tr><td>z</td></tr></table></section>
      << Element("section", 0), Element("h2", 1), String(2, Kettohyo),
         Element("table", 1), Element("tr", 4), Element("th", 5),
         String(6, <<Chichi, " ", "x">>), Element("td", 5), String(8, <<"y">>),
         Element("tr", 4), Element("td", 10), String(11, <<"z">>) >>,
      \* <section><h2>kettohyo</h2><table><tr></tr></table></section>
      << Element("section", 0), Element("h2", 1), String(2, Kettohyo),
         Element("table", 1), Element("tr", 4) >> }

RECURSIVE Shifted(_, _)
Shifted(nodes, offset) ==
    IF nodes = <<>> THEN <<>>
    ELSE LET h == Head(nodes) IN
         <<Node(h.tag, h.cls, IF h.parent = 0 THEN 0 ELSE h.parent + offset, h.text)>>
         \o Shifted(Tail(nodes), offset)

RECURSIVE Document(_, _)
Document(shapes, built) ==
    IF shapes = <<>> THEN built
    ELSE Document(Tail(shapes), built \o Shifted(Head(shapes), Len(built)))

\* line 79: the trees BeautifulSoup(html) may be
Documents ==
    {Document(shapes, <<>>) :
        shapes \in UNION {[1..k -> SectionShapes] : k \in 0..MaxSections}}

WalkIdle ==
    /\ tags_to_extract = {}
    /\ tags_to_remove = <<>>
    /\ inner_tags_to_remove = {}
    /\ soup = <<>>
    /\ section = 0
    /\ section_title = <<>>
    /\ found = <<>>
    /\ wPc = "idle"
    /\ wYielded = <<>>
    /\ html = <<>>

\* lines 79-81
WalkInit ==
    /\ \E c \in WalkConfigs : tags_to_extract = c.extract /\ tags_to_remove = c.remove
    /\ inner_tags_to_remove = DEFAULT_INNER_TAGS_TO_REMOVE
    /\ soup \in Documents
    /\ html = soup
    /\ section = first_section(soup)
    /\ section_title = LEAD
    /\ found = <<>>
    /\ wPc = "while"
    /\ wYielded = <<>>

walkConfig == <<tags_to_extract, tags_to_remove, inner_tags_to_remove, html>>

\* lines 82-94: the title, the block-level clearing, and the list of the
\* elements to extract
EnterSection ==
    /\ wPc = "while"
    /\ section # 0
    /\ section_title' = TitleAt(soup, section, section_title)
    /\ LET cleared == remove_blocks(soup, section, tags_to_remove) IN
       /\ soup' = cleared
       /\ found' = find_all(cleared, section, tags_to_extract)
    /\ wPc' = "for"
    /\ UNCHANGED <<walkConfig, section, wYielded>>

\* lines 98-107 after the inner clearing: the tree and the text
Extracted(t, tag, title) ==
    IF t[tag].tag = "table"
    THEN IF title = Kettohyo
         THEN [soup |-> t, text |-> normalize_blood_table_text(t, tag)]
         ELSE LET n == normalize_table_text(t, tag) IN
              [soup |-> n, text |-> text_maker_handle(n, tag)]
    ELSE [soup |-> t, text |-> normalize_text(get_text(t, tag, <<>>))]

\* line 100: normalize_blood_table_text raises IndexError
ExtractRaises(t, tag, title) ==
    /\ t[tag].tag = "table"
    /\ title = Kettohyo
    /\ BloodRaises(TableRows(t, tag))

\* lines 94-109: one element, up to its yield
ExtractNode ==
    /\ wPc = "for"
    /\ found # <<>>
    /\ LET tag == Head(found)
           inner == remove_inner(soup, tag, inner_tags_to_remove)
       IN  /\ ~ExtractRaises(inner, tag, section_title)
           /\ LET e == Extracted(inner, tag, section_title) IN
              /\ soup' = e.soup
              /\ wYielded' = Append(wYielded,
                     [section_title |-> section_title,
                      paragraph_text |-> e.text,
                      tag_name |-> soup[tag].tag,
                      node |-> tag,
                      section |-> section])
    /\ found' = Tail(found)
    /\ UNCHANGED <<walkConfig, section, section_title, wPc>>

\* lines 94-100: one element, on which the pedigree parser raises
ExtractRaise ==
    /\ wPc = "for"
    /\ found # <<>>
    /\ LET tag == Head(found)
           inner == remove_inner(soup, tag, inner_tags_to_remove)
       IN  /\ ExtractRaises(inner, tag, section_title)
           /\ soup' = inner
    /\ wPc' = "raised"
    /\ UNCHANGED <<walkConfig, section, section_title, found, wYielded>>

\* line 111
NextSection ==
    /\ wPc = "for"
    /\ found = <<>>
    /\ section' = find_next_sibling(soup, section)
    /\ wPc' = "while"
    /\ UNCHANGED <<walkConfig, soup, section_title, found, wYielded>>

\* line 82: section is None, the generator returns
WalkReturn ==
    /\ wPc = "while"
    /\ section = 0
    /\ wPc' = "done"
    /\ UNCHANGED <<walkConfig, soup, section, section_title, found, wYielded>>

Init == MainInit /\ NormIdle /\ BloodIdle /\ WalkIdle

Next ==
    \/ ReadLine /\ UNCHANGED <<normVars, bloodVars, walkVars>>
    \/ EndOfFile /\ UNCHANGED <<normVars, bloodVars, walkVars>>
    \/ \E s \in YieldSections, t \in YieldTexts, g \in YieldTags :
          Yield(s, t, g) /\ UNCHANGED <<normVars, bloodVars, walkVars>>
    \/ StopIteration /\ UNCHANGED <<normVars, bloodVars, walkVars>>
    \/ Raise /\ UNCHANGED <<normVars, bloodVars, walkVars>>

Spec == Init /\ [][Next]_vars

InitNorm == NormInit /\ MainIdle /\ BloodIdle /\ WalkIdle

NextNorm ==
    \/ Normalize /\ UNCHANGED <<mainVars, bloodVars, walkVars>>
    \/ Renormalize /\ UNCHANGED <<mainVars, bloodVars, walkVars>>

SpecNorm == InitNorm /\ [][NextNorm]_vars

InitBlood == BloodInit /\ MainIdle /\ NormIdle /\ WalkIdle

NextBlood ==
    \/ \E raw_row \in RawRows : BloodRow(raw_row) /\ UNCHANGED <<mainVars, normVars, walkVars>>
    \/ \E raw_row \in RawRows : BloodRaise(raw_row) /\ UNCHANGED <<mainVars, normVars, walkVars>>
    \/ BloodReturn /\ UNCHANGED <<mainVars, normVars, walkVars>>

SpecBlood == InitBlood /\ [][NextBlood]_vars

InitWalk == WalkInit /\ MainIdle /\ NormIdle /\ BloodIdle

NextWalk ==
    \/ EnterSection /\ UNCHANGED <<mainVars, normVars, bloodVars>>
    \/ ExtractNode /\ UNCHANGED <<mainVars, normVars, bloodVars>>
    \/ ExtractRaise /\ UNCHANGED <<mainVars, normVars, bloodVars>>
    \/ NextSection /\ UNCHANGED <<mainVars, normVars, bloodVars>>
    \/ WalkReturn /\ UNCHANGED <<mainVars, normVars, bloodVars>>

SpecWalk == InitWalk /\ [][NextWalk]_vars

(***************************************************************************)
(* Properties of main (Spec)                                               *)
(***************************************************************************)
\* the yielded triple y was written as the record at position y.after
Emitted(y) ==
    /\ y.after = y.before + 1
    /\ y.after <= Len(output)
    /\ output[y.after].text = y.paragraph_text
    /\ output[y.after].section = y.section_title
    /\ output[y.after].html_tag = y.tag_name

Dropped(y) == y.after = y.before

IsPrefix(s, t) == Len(s) <= Len(t) /\ SubSeq(t, 1, Len(s)) = s

\* the records written for the line being processed
DocRecords == SubSeq(output, docStart + 1, Len(output))

PassedFilters(y) == Kept(y.section_title, y.paragraph_text)

\* C1 as stated: a yielded triple outside the ignored sections is emitted if
\* and only if min_paragraph_length < len(text) <= max_paragraph_length.
C1_ExclusiveMinimum ==
    \A i \in DOMAIN yielded :
        LET y == yielded[i] IN
        y.section_title \notin sections_to_ignore =>
            /\ Emitted(y) \/ Dropped(y)
            /\ Emitted(y) <=>
                  /\ min_paragraph_length < Len(y.paragraph_text)
                  /\ Len(y.paragraph_text) <= max_paragraph_length

\* C1 amended: a yielded triple outside the ignored sections is emitted if
\* and only if min_paragraph_length <= len(text) <= max_paragraph_length; a
\* text of exactly min_paragraph_length characters is kept.
C1_InclusiveMinimum ==
    \A i \in DOMAIN yielded :
        LET y == yielded[i] IN
        y.section_title \notin sections_to_ignore =>
            /\ Emitted(y) \/ Dropped(y)
            /\ Emitted(y) <=>
                  /\ min_paragraph_length <= Len(y.paragraph_text)
                  /\ Len(y.paragraph_text) <= max_paragraph_length

\* a text of exactly min_paragraph_length characters was emitted and one of
\* max_paragraph_length + 1 characters was dropped, both outside the ignored
\* sections
C1_Witness ==
    /\ \E i \in DOMAIN yielded :
          /\ yielded[i].section_title \notin sections_to_ignore
          /\ Len(yielded[i].paragraph_text) = min_paragraph_length
          /\ Emitted(yielded[i])
    /\ \E i \in DOMAIN yielded :
          /\ yielded[i].section_title \notin sections_to_ignore
          /\ Len(yielded[i].paragraph_text) = max_paragraph_length + 1
          /\ Dropped(yielded[i])

\* C2: the records emitted for a line carry paragraph_index 0, 1, ..., k-1 in
\* emission order, k being the number of yielded triples that pass the
\* filters; a dropped triple consumes no index; the index restarts at 0 on
\* each line; each id is "{pageid}-{revid}-{paragraph_index}" and no two
\* records of the line share an id.
C2_IndexIsDense ==
    lineNo > 0 =>
        LET recs == DocRecords
            passing == SelectSeq(yielded, PassedFilters)
        IN  /\ Len(recs) = Len(passing)
            /\ paragraph_index = Len(recs)
            /\ \A j \in DOMAIN recs :
                  /\ recs[j].paragraph_index = j - 1
                  /\ recs[j].id = FormatId(input_item.pageid, input_item.revid, j - 1)
                  /\ recs[j].pageid = input_item.pageid
                  /\ recs[j].revid = input_item.revid
                  /\ j <= Len(passing) =>
                        /\ recs[j].text = passing[j].paragraph_text
                        /\ recs[j].section = passing[j].section_title
            /\ \A j, k \in DOMAIN recs : j # k => recs[j].id # recs[k].id
            /\ \A i \in DOMAIN yielded :
                  Dropped(yielded[i]) =>
                      yielded[i].index_after = yielded[i].index_before

\* on the second line, after the first line wrote a record: a triple dropped
\* for its section, then a triple that passes and is written with index 0
C2_Witness ==
    /\ lineNo = 2
    /\ docStart >= 1
    /\ Len(yielded) = 2
    /\ yielded[1].section_title \in sections_to_ignore
    /\ Dropped(yielded[1])
    /\ Emitted(yielded[2])
    /\ output[Len(output)].paragraph_index = 0
    /\ output[docStart].paragraph_index = 0

\* C6: no emitted record has a section title in the ignore set, whatever its
\* text length; a triple of an ignored section is dropped before the length
\* tests and takes no index.
C6_NoIgnoredSection ==
    /\ \A j \in DOMAIN output : output[j].section \notin sections_to_ignore
    /\ \A i \in DOMAIN yielded :
          yielded[i].section_title \in sections_to_ignore =>
              /\ Dropped(yielded[i])
              /\ yielded[i].index_after = yielded[i].index_before

\* a triple of an ignored section whose length is within the bounds was
\* dropped, after a record had been written
C6_Witness ==
    /\ Len(output) >= 1
    /\ \E i \in DOMAIN yielded :
          /\ yielded[i].section_title \in sections_to_ignore
          /\ LengthKept(yielded[i].paragraph_text)
          /\ Dropped(yielded[i])
          /\ yielded[i].before >= 1

\* C10: the output is append-only: every step, a fault of the generator
\* included, leaves the records written so far in place, unchanged and in
\* order.
C10_AppendOnly == [][IsPrefix(output, output')]_vars

\* the generator raised on the second line, after that line and the line
\* before it had each written a record; all of them are in the output
C10_Witness ==
    /\ pc = "aborted"
    /\ lineNo = 2
    /\ docStart >= 1
    /\ Len(output) > docStart
    /\ output[1].pageid = 1
    /\ output[Len(output)].pageid = 2

(***************************************************************************)
(* Properties of normalize_text (SpecNorm)                                 *)
(***************************************************************************)
\* C7: normalize_text is idempotent.
C7_Idempotent == nPc = "twice" => nTwice = nOnce

\* C8: the output of normalize_text has no two consecutive whitespace
\* characters and no leading or trailing whitespace.
C8_NoWhitespaceRuns ==
    nPc \in {"once", "twice"} =>
        /\ \A i \in 1..(Len(nOnce) - 1) : ~(IsSpace(nOnce[i]) /\ IsSpace(nOnce[i + 1]))
        /\ nOnce # <<>> => ~IsSpace(nOnce[1]) /\ ~IsSpace(nOnce[Len(nOnce)])

(***************************************************************************)
(* Properties of normalize_blood_table_text (SpecBlood)                    *)
(***************************************************************************)
WhitespaceAt(s) == {i \in 1..Len(s) : IsSpace(s[i])}

\* the last position of the whitespace run that starts at i
RunEnd(s, i) ==
    CHOOSE j \in i..Len(s) :
        /\ \A k \in i..j : IsSpace(s[k])
        /\ j = Len(s) \/ ~IsSpace(s[j + 1])

\* the first whitespace run of s becomes ": "
FirstRunColonized(s) ==
    IF WhitespaceAt(s) = {} THEN s
    ELSE LET i == Least(WhitespaceAt(s)) IN
         SubSeq(s, 1, i - 1) \o <<":", " ">> \o SubSeq(s, RunEnd(s, i) + 1, Len(s))

IsKept(c) == c # "(dropped)"

\* every whitespace run of s becomes one space
RunsCollapsed(s) ==
    SelectSeq([i \in 1..Len(s) |->
                  IF ~IsSpace(s[i]) THEN s[i]
                  ELSE IF i = 1 \/ ~IsSpace(s[i - 1]) THEN " "
                  ELSE "(dropped)"],
              IsKept)

HasPrefix(s, p) == Len(p) <= Len(s) /\ \A i \in 1..Len(p) : s[i] = p[i]

\* the rule that classifies a row, by priority; 0 when none matches
ClaimedRule(cells) ==
    IF \E p \in {<<Chichi, " ">>, <<Haha, " ">>, <<Chichi, No>>, <<Haha, No>>} :
           HasPrefix(cells[1], p) THEN 1
    ELSE IF HasPrefix(cells[1], <<"5", Dai, Nai>>) THEN 2
    ELSE IF HasPrefix(cells[1], <<Haha, Kei>>) THEN 3
    ELSE 0

RECURSIVE JoinedWith(_, _, _)
JoinedWith(cells, sep, i) ==
    IF i > Len(cells) THEN <<>>
    ELSE (IF i = 1 THEN <<>> ELSE sep) \o cells[i] \o JoinedWith(cells, sep, i + 1)

ClaimedLine(cells) ==
    IF ClaimedRule(cells) = 1
    THEN JoinedWith([i \in 1..Len(cells) |->
                        IF i = 1 THEN FirstRunColonized(cells[i]) ELSE cells[i]],
                    <<" ", "-", " ">>, 1)
    ELSE IF ClaimedRule(cells) = 2
    THEN JoinedWith([i \in 1..Len(cells) |->
                        IF i = 1 THEN SelectSeq(cells[i], NotAsciiSpace)
                        ELSE IF i = 2 THEN RunsCollapsed(cells[i])
                        ELSE cells[i]],
                    <<":", " ">>, 1)
    ELSE JoinedWith(cells, <<":", " ">>, 1)

RECURSIVE ClaimedLines(_)
ClaimedLines(table) ==
    IF table = <<>> THEN <<>>
    ELSE LET cells == RowCells(Head(table)) IN
         (IF ClaimedRule(cells) = 0 THEN <<>> ELSE <<ClaimedLine(cells)>>)
         \o ClaimedLines(Tail(table))

\* C9: each row is classified by its first cell, the first matching rule
\* winning: (1) a relation label: the first whitespace run of the first cell
\* becomes ": " and the cells are joined with " - "; (2) within 5
\* generations: the spaces are removed from the first cell, the whitespace
\* runs of the second cell collapse to one space and the cells are joined
\* with ": "; (3) maternal line: the cells are joined with ": "; any other
\* row adds nothing.  The result is the retained rows in table row order,
\* joined by newlines (and NFKC-normalized as a whole, line 76).
C9_RowClassification ==
    bPc = "returned" =>
        bResult = NFKC(JoinedWith(ClaimedLines(bTable), <<"\n">>, 1))

\* the rows [father x | x], [within 5 generations x y | a b \n c] and
\* [x father | x] gave "father: x - x" and "within5generationsxy: a b c"
C9_Witness ==
    /\ bPc = "returned"
    /\ bTable = << <<<<Chichi, " ", "x">>, <<"x">>>>,
                   <<<<"5", Dai, Nai, " ", "x", " ", "y">>,
                     <<"a", " ", "b", " ", "\n", "c">>>>,
                   <<<<"x", " ", Chichi, " ">>, <<"x">>>> >>
    /\ bResult = <<Chichi, ":", " ", "x", " ", "-", " ", "x", "\n",
                   "5", Dai, Nai, "x", "y", ":", " ", "a", " ", "b", " ", "c">>

(***************************************************************************)
(* Properties of extract_paragraphs_from_html (SpecWalk), stated on the    *)
(* tree as parsed (html), whose positions are in document order            *)
(***************************************************************************)
\* d is below a in tree t
RECURSIVE IsBelow(_, _, _)
IsBelow(t, d, a) ==
    \/ t[d].parent = a
    \/ t[d].parent > 0 /\ IsBelow(t, t[d].parent, a)

\* the text of the strings below n, from position i on
RECURSIVE TextBelow(_, _, _)
TextBelow(t, n, i) ==
    IF i > Len(t) THEN <<>>
    ELSE (IF t[i].tag = "#text" /\ IsBelow(t, i, n) THEN t[i].text ELSE <<>>)
         \o TextBelow(t, n, i + 1)

\* the section visited before n: its nearest preceding sibling section
SectionBefore(t, n) ==
    LET earlier == {i \in 1..(n - 1) :
                       t[i].parent = t[n].parent /\ t[i].tag = "section"} IN
    IF earlier = {} THEN 0 ELSE CHOOSE i \in earlier : \A j \in earlier : j <= i

\* the title in effect for section n when own headings are the h2 children
RECURSIVE TitleByDirectHeading(_, _)
TitleByDirectHeading(t, n) ==
    LET own == {i \in 1..Len(t) : t[i].tag = "h2" /\ t[i].parent = n} IN
    IF own # {} THEN TextBelow(t, Least(own), 1)
    ELSE IF SectionBefore(t, n) = 0 THEN LEAD
    ELSE TitleByDirectHeading(t, SectionBefore(t, n))

\* the title in effect for section n when own headings are the h2 elements
\* below the section at any depth
RECURSIVE TitleByFirstHeadingBelow(_, _)
TitleByFirstHeadingBelow(t, n) ==
    LET own == {i \in 1..Len(t) : t[i].tag = "h2" /\ IsBelow(t, i, n)} IN
    IF own # {} THEN TextBelow(t, Least(own), 1)
    ELSE IF SectionBefore(t, n) = 0 THEN LEAD
    ELSE TitleByFirstHeadingBelow(t, SectionBefore(t, n))

\* C3 as stated: every yielded triple carries the text of its section's own
\* direct h2 heading if the section has one, otherwise the title in effect
\* for the section visited before, otherwise "__LEAD__".
C3_DirectHeading ==
    \A i \in DOMAIN wYielded :
        wYielded[i].section_title = TitleByDirectHeading(html, wYielded[i].section)

\* C3 amended: every yielded triple carries the text of the first h2 element
\* below its section in document order, a child of the section or not, if
\* there is one, otherwise the title in effect for the section visited
\* before, otherwise "__LEAD__".
C3_FirstHeadingBelow ==
    \A i \in DOMAIN wYielded :
        wYielded[i].section_title = TitleByFirstHeadingBelow(html, wYielded[i].section)

\* three sections, each yielding one paragraph: none has a heading before
\* the second, whose h2 sits in a div, and the third has none of its own;
\* the titles are "__LEAD__", "H3", "H3"
C3_Witness ==
    /\ wPc = "done"
    /\ Len(wYielded) = 3
    /\ wYielded[1].section_title = LEAD
    /\ wYielded[2].section_title = <<"H", "3">>
    /\ wYielded[3].section_title = <<"H", "3">>
    /\ wYielded[1].section < wYielded[2].section
    /\ wYielded[2].section < wYielded[3].section
    /\ \A i \in DOMAIN html :
          html[i].tag = "h2" => html[html[i].parent].tag = "div"

\* C4: only the outermost matching elements are yielded: no yielded element
\* lies below another yielded element.
C4_OutermostOnly ==
    \A i, j \in DOMAIN wYielded :
        ~IsBelow(html, wYielded[i].node, wYielded[j].node)

\* the elements of the tree that match a block-level noise spec
NoiseElements ==
    {e \in DOMAIN html :
        \E k \in DOMAIN tags_to_remove :
            /\ html[e].tag = tags_to_remove[k].tag
            /\ tags_to_remove[k].cls = "" \/ tags_to_remove[k].cls \in html[e].cls}

Characters(text) == {text[i] : i \in DOMAIN text}

\* C5: an element that matches a block-level noise spec contributes nothing
\* to the yielded sequence: no triple is yielded for it or for an element
\* below it, and no yielded text of its section holds any of its content.
C5_NoiseContributesNothing ==
    \A i \in DOMAIN wYielded : \A e \in NoiseElements :
        IsBelow(html, e, wYielded[i].section) =>
            /\ wYielded[i].node # e
            /\ ~IsBelow(html, wYielded[i].node, e)
            /\ Characters(TextBelow(html, e, 1))
                   \cap Characters(wYielded[i].paragraph_text) = {}

=============================================================================
